---- MODULE Spec2Model ----
(***************************************************************************)
(* Completion-token resolution of Beast: the async_result resolver and the *)
(* two versions of the async_completion binder.                            *)
(*                                                                         *)
(*   version 1  src/include/beast/core/async_result.hpp : async_completion *)
(*              resolves handler_type / result_type directly               *)
(*   version 2  src/unnamed/part_000 : async_completion routes through the *)
(*              two-stage async_result<decay<CompletionToken>, Signature>  *)
(*                                                                         *)
(* Template instantiation is modelled as a step whose outcome is either a  *)
(* well-formed instantiation or a build failure ("rejected").  Every call  *)
(* of an initiating function is one slot of Calls; the Signature is fixed  *)
(* to void(int), the argument being drawn from Vals.                       *)
(***************************************************************************)
EXTENDS Integers, FiniteSets, Sequences, TLC

MaxCalls == 2      \* initiating-function calls in flight
MaxVal   == 2      \* values a handler can be invoked with
MaxInvokes == 3    \* invocations counted per handler when operations are
                   \* not held to their obligation

Calls == 1..MaxCalls
Vals  == 1..MaxVal

(***************************************************************************)
(* The universe of types.  Token types a caller can pass:                  *)
(*   Fn        callable as void(int)                                       *)
(*   FnRet     callable with (int), returns a value                        *)
(*   Plain     not callable with (int)                                     *)
(*   UseFuture deferred-result token: adapter strategy registered          *)
(*   Misfit    token with a registered strategy whose handler does not     *)
(*             accept (int)                                                *)
(***************************************************************************)
TokenTypes == {"Fn", "FnRet", "Plain", "UseFuture", "Misfit"}

\* CompletionToken as the template parameter: T (rvalue passed) or T& (lvalue)
CTs == [base : TokenTypes, ref : BOOLEAN]

NoCT == [base |-> "none", ref |-> FALSE]

\* The adapter strategies registered outside the core, keyed by token type:
\* specialisations of boost::asio::handler_type.
Strategies ==
    [UseFuture |-> [handler |-> "PromiseHandler", ret |-> "Future"],
     Misfit    |-> [handler |-> "MisfitHandler",  ret |-> "Future"]]

HasStrategy(t) == t \in DOMAIN Strategies

\* Specialisations of boost::asio::async_result, keyed by handler type.
ResultStrategies ==
    [PromiseHandler |-> "Future", MisfitHandler |-> "Future"]

\* Whether a value of the type can be called with Signature's argument list,
\* and whether that call returns nothing.
InvocableWithArgs(t) == t \in {"Fn", "FnRet", "PromiseHandler"}
ReturnsNothing(t)    == t \in {"Fn", "PromiseHandler"}

\* is_CompletionHandler<T, Signature>
is_CompletionHandler(t) == InvocableWithArgs(t) /\ ReturnsNothing(t)

\* std::decay<CompletionToken>::type
Decay(ct) == [base |-> ct.base, ref |-> FALSE]

\* boost::asio::handler_type<T, Signature>::type: the registered strategy's
\* handler, and by default ("the primary template assumes that the
\* CompletionToken is the completion handler") the token type itself.
\* References are stripped by the library.
AsioHandlerType(ct) ==
    IF HasStrategy(ct.base) THEN Strategies[ct.base].handler ELSE ct.base

\* boost::asio::async_result<Handler>::type: void unless specialised.
AsioResultType(h) ==
    IF h \in DOMAIN ResultStrategies THEN ResultStrategies[h] ELSE "void"

IllFormed == [handler |-> "ill-formed", ret |-> "ill-formed"]
NoDecl    == [handler |-> "none", ret |-> "none"]

(***************************************************************************)
(* async_result<CompletionToken, Signature>  (the two-stage resolver)      *)
(***************************************************************************)
\* static_assert(! std::is_reference<CompletionToken>::value)
AsyncResultWellFormed(ct) == ~ ct.ref

AsyncResult_completion_handler_type(ct) ==
    IF AsyncResultWellFormed(ct) THEN AsioHandlerType(ct) ELSE "ill-formed"

\* A resolver that looks the return type up by the token instead of by the
\* resolved handler.
AsyncResult_return_type_ByToken(ct) ==
    IF AsyncResultWellFormed(ct) THEN AsioResultType(ct.base) ELSE "ill-formed"

AsyncResult_return_type(ct) ==
    IF AsyncResultWellFormed(ct)
    THEN AsioResultType(AsyncResult_completion_handler_type(ct))
    ELSE "ill-formed"

(***************************************************************************)
(* Type members of the two binders and the macros.                         *)
(***************************************************************************)
\* version 2: async_completion::completion_handler_type
completion_handler_type(ct) == AsyncResult_completion_handler_type(Decay(ct))

\* version 1: async_completion::handler_type and ::result_type
handler_type(ct) == AsioHandlerType(ct)
result_type(ct)  == AsioResultType(handler_type(ct))

\* BEAST_HANDLER_TYPE(ct, sig); version 1 has no such macro, its callers name
\* async_completion<ct, sig>::handler_type.
BEAST_HANDLER_TYPE(v, ct) ==
    IF v = 1 THEN handler_type(ct)
    ELSE AsyncResult_completion_handler_type(Decay(ct))

\* A return-type query that already fails for a token whose resolved handler
\* does not meet the signature.
BEAST_INITFN_RESULT_TYPE_Checked(v, ct) ==
    IF ~ is_CompletionHandler(AsioHandlerType(ct)) THEN "ill-formed"
    ELSE IF v = 1 THEN result_type(ct)
    ELSE AsyncResult_return_type(Decay(ct))

\* BEAST_INITFN_RESULT_TYPE(ct, sig)
BEAST_INITFN_RESULT_TYPE(v, ct) ==
    IF v = 1 THEN result_type(ct)
    ELSE AsyncResult_return_type(Decay(ct))

\* The handler type a binder of version v resolves.
BinderHandlerType(v, ct) ==
    IF v = 1 THEN handler_type(ct) ELSE completion_handler_type(ct)

\* std::is_same<CompletionToken, completion_handler_type> with the reference
\* dropped from the token first.
IsSameDecayed(ct) == ct.base = completion_handler_type(ct)

\* std::is_same<CompletionToken, completion_handler_type>  (version 2)
IsSame(ct) == ~ ct.ref /\ ct.base = completion_handler_type(ct)

\* A signature check that is never made.
SignatureCheckOff(v, ct) == TRUE

\* static_assert(is_CompletionHandler<handler type, Signature>::value) in the
\* constructor of either binder.
SignatureCheck(v, ct) == is_CompletionHandler(BinderHandlerType(v, ct))

(***************************************************************************)
(* Objects.                                                                *)
(***************************************************************************)
NoHandler   == [kind |-> "none", type |-> "none", st |-> "none", cell |-> 0]
GoneHandler == [kind |-> "gone", type |-> "none", st |-> "none", cell |-> 0]
NoCarrier   == [kind |-> "none", cell |-> 0]
GoneCarrier == [kind |-> "gone", cell |-> 0]
NoOp        == [st |-> "none", type |-> "none", cell |-> 0, n |-> 0,
                arg |-> 0, late |-> FALSE]
NoRet       == [kind |-> "none", cell |-> 0]
FreshCell   == [val |-> 0, sets |-> 0]

\* A handler member shared by every binder (a static data member).
HandlerSlotStatic(c) == 1

\* The storage of a binder's members completion_handler / handler and result:
\* non-static data members, one per binder object.
HandlerSlot(c) == c

\* How the constructor's member initialiser treats the token.
\*   version 2: static_cast<conditional<is_same, completion_handler_type&,
\*              CompletionToken&&>>(token): the token itself when is_same,
\*              else an lvalue (copy) for T&, an rvalue (move) for T.
\*   version 1: std::forward<CompletionHandler>(token) into a value member.
HandlerInit(v, ct) ==
    IF v = 2 /\ IsSame(ct) THEN "borrow"
    ELSE IF ct.ref THEN "copy" ELSE "move"

\* The shared state a handler of the given type creates when it is constructed
\* from the token of call c (the promise of a deferred-result strategy).
HandlerCell(h, c) == IF h \in DOMAIN ResultStrategies THEN c ELSE 0

\* A carrier that is not bound to the handler it is given.
BindResultUnlinked(h) ==
    IF h.type \in DOMAIN ResultStrategies
    THEN [kind |-> "future", cell |-> 0]
    ELSE [kind |-> "void", cell |-> 0]

\* async_result::async_result(completion_handler_type& h) : impl_(h), and
\* version 1's result(handler): the carrier is bound to the handler object.
BindResult(h) ==
    IF h.type \in DOMAIN ResultStrategies
    THEN [kind |-> "future", cell |-> h.cell]
    ELSE [kind |-> "void", cell |-> 0]

\* A get() that returns nothing whatever the carrier holds.
AsyncResultGetVoid(k) == [kind |-> "void", cell |-> 0]

\* async_result::get() { return impl_.get(); }, version 1: result.get()
AsyncResultGet(k) == [kind |-> k.kind, cell |-> k.cell]

VARIABLES
    pc,       \* per call: "idle", "declared", "rejected", "built", "destroyed"
    ver,      \* per call: which binder version the initiating function uses
    ct,       \* per call: the deduced CompletionToken
    decl,     \* per call: what BEAST_HANDLER_TYPE / BEAST_INITFN_RESULT_TYPE name
    token,    \* per call: the caller's token object: "none", "valid", "moved"
    how,      \* per call: what construction did to the token
    bh,       \* per slot: the binder's handler member
    carrier,  \* per slot: the binder's result member
    oph,      \* per call: the handler the operation holds, how often it was
              \* invoked (n), what a deferred-result handler was given (arg),
              \* and whether the binder was already destroyed then (late)
    cells,    \* shared states of deferred results
    retval    \* per call: what the initiating function returned

vars == <<pc, ver, ct, decl, token, how, bh, carrier, oph, cells, retval>>

Init ==
    /\ pc      = [c \in Calls |-> "idle"]
    /\ ver     = [c \in Calls |-> 0]
    /\ ct      = [c \in Calls |-> NoCT]
    /\ decl    = [c \in Calls |-> NoDecl]
    /\ token   = [c \in Calls |-> "none"]
    /\ how     = [c \in Calls |-> "none"]
    /\ bh      = [c \in Calls |-> NoHandler]
    /\ carrier = [c \in Calls |-> NoCarrier]
    /\ oph     = [c \in Calls |-> NoOp]
    /\ cells   = [c \in Calls |-> FreshCell]
    /\ retval  = [c \in Calls |-> NoRet]

(***************************************************************************)
(* An initiating function template is instantiated for a token: its return *)
(* type is named with BEAST_INITFN_RESULT_TYPE, and the caller's token     *)
(* exists.                                                                 *)
(***************************************************************************)
Instantiate(c, v, t) ==
    /\ pc[c] = "idle"
    /\ ver'   = [ver EXCEPT ![c] = v]
    /\ ct'    = [ct EXCEPT ![c] = t]
    /\ decl'  = [decl EXCEPT ![c] = [handler |-> BEAST_HANDLER_TYPE(v, t),
                                     ret     |-> BEAST_INITFN_RESULT_TYPE(v, t)]]
    /\ token' = [token EXCEPT ![c] = "valid"]
    /\ pc'    = [pc EXCEPT ![c] =
                    IF BEAST_INITFN_RESULT_TYPE(v, t) = "ill-formed"
                    THEN "rejected" ELSE "declared"]
    /\ UNCHANGED <<how, bh, carrier, oph, cells, retval>>

(***************************************************************************)
(* async_completion's constructor: handler member, then result member,     *)
(* under the static_assert.                                                *)
(***************************************************************************)
Construct(c) ==
    /\ pc[c] = "declared"
    /\ IF ~ SignatureCheck(ver[c], ct[c])
       THEN /\ pc' = [pc EXCEPT ![c] = "rejected"]
            /\ UNCHANGED <<token, how, bh, carrier, cells>>
       ELSE LET init == HandlerInit(ver[c], ct[c])
                ht   == BinderHandlerType(ver[c], ct[c])
                h    == IF init = "borrow"
                        THEN [kind |-> "ref", type |-> ht, st |-> "valid",
                              cell |-> 0]
                        ELSE [kind |-> "own", type |-> ht, st |-> "valid",
                              cell |-> HandlerCell(ht, c)]
            IN  /\ pc'      = [pc EXCEPT ![c] = "built"]
                /\ how'     = [how EXCEPT ![c] = init]
                /\ token'   = [token EXCEPT ![c] =
                                  IF init = "move" THEN "moved" ELSE @]
                /\ bh'      = [bh EXCEPT ![HandlerSlot(c)] = h]
                /\ carrier' = [carrier EXCEPT ![HandlerSlot(c)] = BindResult(h)]
                /\ cells'   = IF h.cell = 0 THEN cells
                              ELSE [cells EXCEPT ![h.cell] = FreshCell]
    /\ UNCHANGED <<ver, ct, decl, oph, retval>>

(***************************************************************************)
(* return completion.result.get();  the last statement of the initiating   *)
(* function, after the operation was set up with the handler.              *)
(***************************************************************************)
Get(c) ==
    /\ pc[c] = "built"
    /\ oph[c].st # "none"
    /\ retval[c].kind = "none"
    /\ retval' = [retval EXCEPT ![c] = AsyncResultGet(carrier[HandlerSlot(c)])]
    /\ UNCHANGED <<pc, ver, ct, decl, token, how, bh, carrier, oph, cells>>

(***************************************************************************)
(* The operation takes the handler: Op{std::move(completion.handler)}.     *)
(* Moving from a borrowed handler moves from the caller's token.           *)
(***************************************************************************)
MoveOut(c) ==
    LET h == bh[HandlerSlot(c)] IN
    /\ pc[c] = "built"
    /\ oph[c].st = "none"
    /\ h.kind \in {"ref", "own"}
    /\ h.st = "valid"
    /\ oph'   = [oph EXCEPT ![c] = [st |-> "held", type |-> h.type,
                                    cell |-> h.cell, n |-> 0, arg |-> 0,
                                    late |-> FALSE]]
    /\ bh'    = [bh EXCEPT ![HandlerSlot(c)] =
                    IF h.kind = "own" THEN [h EXCEPT !.st = "moved"] ELSE h]
    /\ token' = [token EXCEPT ![c] = IF h.kind = "ref" THEN "moved" ELSE @]
    /\ UNCHANGED <<pc, ver, ct, decl, how, carrier, cells, retval>>

(***************************************************************************)
(* The initiating function returns: the binder and its members die.        *)
(***************************************************************************)
Destroy(c) ==
    /\ pc[c] = "built"
    /\ retval[c].kind # "none"
    /\ pc'      = [pc EXCEPT ![c] = "destroyed"]
    /\ bh'      = [bh EXCEPT ![HandlerSlot(c)] = GoneHandler]
    /\ carrier' = [carrier EXCEPT ![HandlerSlot(c)] = GoneCarrier]
    /\ UNCHANGED <<ver, ct, decl, token, how, oph, cells, retval>>

\* The operation's obligation: it completes a handler it holds once.
OpMayInvoke(c) == oph[c].st = "held" /\ oph[c].n = 0

\* A call of the handler the operation holds with v.  A deferred-result
\* handler stores v in its shared state.  Nothing in the handler, the binder
\* or the carrier depends on how often it was called before.
Complete(c, v) ==
    /\ oph'   = [oph EXCEPT ![c] =
                    [@ EXCEPT !.n = @ + 1,
                              !.arg = IF oph[c].cell = 0 THEN 0 ELSE v,
                              !.late = (pc[c] = "destroyed")]]
    /\ cells' = IF oph[c].cell = 0 THEN cells
                ELSE [cells EXCEPT ![oph[c].cell] =
                         [val |-> v, sets |-> @.sets + 1]]
    /\ UNCHANGED <<pc, ver, ct, decl, token, how, bh, carrier, retval>>

(***************************************************************************)
(* The operation completes: it calls the handler it holds with v.          *)
(***************************************************************************)
Invoke(c, v) ==
    /\ OpMayInvoke(c)
    /\ Complete(c, v)

(***************************************************************************)
(* An operation that does not keep its obligation calls the handler it     *)
(* holds again, at any time and any number of times (counted up to         *)
(* MaxInvokes): the core has no guard against it.                          *)
(***************************************************************************)
Reinvoke(c, v) ==
    /\ oph[c].st = "held"
    /\ oph[c].n >= 1
    /\ oph[c].n < MaxInvokes
    /\ Complete(c, v)

Next ==
    \/ \E c \in Calls, v \in {1, 2}, t \in CTs : Instantiate(c, v, t)
    \/ \E c \in Calls : Construct(c)
    \/ \E c \in Calls : Get(c)
    \/ \E c \in Calls : MoveOut(c)
    \/ \E c \in Calls : Destroy(c)
    \/ \E c \in Calls, v \in Vals : Invoke(c, v)

Spec == Init /\ [][Next]_vars

\* The same calls with operations that are not held to their obligation.
NextAnyOperation ==
    \/ \E c \in Calls, v \in {1, 2}, t \in CTs : Instantiate(c, v, t)
    \/ \E c \in Calls : Construct(c)
    \/ \E c \in Calls : Get(c)
    \/ \E c \in Calls : MoveOut(c)
    \/ \E c \in Calls : Destroy(c)
    \/ \E c \in Calls, v \in Vals : Invoke(c, v)
    \/ \E c \in Calls, v \in Vals : Reinvoke(c, v)

SpecAnyOperation == Init /\ [][NextAnyOperation]_vars

(***************************************************************************)
(* What a caller sees.                                                     *)
(***************************************************************************)
Handler(c) == bh[HandlerSlot(c)]
Carrier(c) == carrier[HandlerSlot(c)]

Pending   == [state |-> "pending", val |-> 0]
Unit      == [state |-> "unit", val |-> 0]
NotYet    == [state |-> "none", val |-> 0]
Ready(v)  == [state |-> "ready", val |-> v]

\* What the value returned by the initiating function reports: nothing was
\* returned yet, a void return, or the state of the deferred result's cell.
Report(c) ==
    CASE retval[c].kind = "void" -> Unit
      [] retval[c].kind = "future" ->
            IF retval[c].cell \in Calls /\ cells[retval[c].cell].sets > 0
            THEN Ready(cells[retval[c].cell].val)
            ELSE Pending
      [] OTHER -> NotYet

Started(c)  == pc[c] # "idle"
Built(c)    == pc[c] \in {"built", "destroyed"}
Lazy(c)     == AsioResultType(AsioHandlerType(ct[c])) = "Future"

-----------------------------------------------------------------------------
\* C1: resolution is the strategy lookup with a default.  For a token type
\* with a registered strategy S the declared handler and return types are
\* S's and get() returns S's extraction (the handle on the shared state the
\* handler created); for a directly invocable token type without a strategy
\* the handler type is the token type, the return type is void and get()
\* returns nothing.
C1_Resolution ==
    \A c \in Calls : Started(c) =>
        LET t == ct[c].base IN
        /\ HasStrategy(t) =>
              /\ decl[c].handler = Strategies[t].handler
              /\ decl[c].ret = Strategies[t].ret
              /\ Handler(c).kind \in {"ref", "own"} =>
                    Handler(c).type = Strategies[t].handler
              /\ retval[c].kind # "none" =>
                    retval[c] = [kind |-> "future", cell |-> c]
        /\ (~ HasStrategy(t) /\ InvocableWithArgs(t)) =>
              /\ decl[c].handler = t
              /\ decl[c].ret = "void"
              /\ Handler(c).kind \in {"ref", "own"} => Handler(c).type = t
              /\ retval[c].kind # "none" => Report(c) = Unit

C1_Witness ==
    \E c, d \in Calls :
        /\ ver[c] = 2 /\ ct[c].base = "UseFuture" /\ retval[c].kind = "future"
        /\ ct[d].base = "Fn" /\ retval[d].kind = "void"

\* C2: at construction a token whose type is the resolved handler type is
\* borrowed (no copy, no move); any other token is forwarded into a handler
\* the binder owns.
TokenIsHandler(c) ==
    ~ ct[c].ref /\ ct[c].base = BinderHandlerType(ver[c], ct[c])

C2_BorrowOrOwn ==
    \A c \in Calls : pc[c] = "built" =>
        IF TokenIsHandler(c)
        THEN /\ how[c] = "borrow"
             /\ Handler(c).kind = "ref"
             /\ oph[c].st = "none" => token[c] = "valid"
        ELSE /\ how[c] \in {"copy", "move"}
             /\ Handler(c).kind = "own"

\* C3: a (token, Signature) pair whose resolved handler type fails the
\* signature check never yields a binder, a handler, a carrier or a return
\* value, and no handler of such a type ever exists.
C3_MismatchRejected ==
    /\ \A c \in Calls :
          (Started(c) /\ ~ is_CompletionHandler(AsioHandlerType(ct[c]))) =>
              /\ pc[c] \in {"declared", "rejected"}
              /\ Handler(c) = NoHandler
              /\ Carrier(c) = NoCarrier
              /\ oph[c] = NoOp
              /\ retval[c] = NoRet
              /\ token[c] = "valid"
    /\ \A c \in Calls :
          /\ oph[c].st # "none" => is_CompletionHandler(oph[c].type)
          /\ bh[c].kind \in {"ref", "own"} => is_CompletionHandler(bh[c].type)

C3_Witness ==
    \E c, d \in Calls :
        /\ pc[c] = "rejected" /\ ct[c].base = "FnRet"
        /\ pc[d] = "rejected" /\ ct[d].base = "Misfit"

\* C4 as claimed: for a token type that is neither invocable nor has a
\* strategy the type query itself fails.
Unresolvable(c) ==
    Started(c) /\ ~ InvocableWithArgs(ct[c].base) /\ ~ HasStrategy(ct[c].base)

C4_QueryFails ==
    \A c \in Calls : Unresolvable(c) =>
        /\ decl[c] = IllFormed
        /\ ~ Built(c)

\* C4 amended: such a token type resolves by default to itself with a void
\* return type, so the type queries succeed; only the construction of the
\* binder fails, and nothing is produced.
C4_DefaultThenRejected ==
    \A c \in Calls : Unresolvable(c) =>
        /\ decl[c] = [handler |-> ct[c].base, ret |-> "void"]
        /\ pc[c] \in {"declared", "rejected"}
        /\ Handler(c) = NoHandler /\ Carrier(c) = NoCarrier
        /\ oph[c] = NoOp /\ retval[c] = NoRet

C4_Witness ==
    \E c, d \in Calls :
        /\ c # d
        /\ ct[c].base = "Plain" /\ pc[c] = "rejected" /\ ver[c] = 1
        /\ ct[d].base = "Plain" /\ pc[d] = "rejected" /\ ver[d] = 2

\* C5: for a deferred-result token the returned handle is pending exactly
\* while the handler has not been invoked, and reports the value the handler
\* was invoked with once it has been invoked.
C5_LazyResult ==
    \A c \in Calls : (Lazy(c) /\ retval[c].kind # "none") =>
        /\ retval[c].kind = "future"
        /\ (Report(c) = Pending) <=> (oph[c].n = 0)
        /\ oph[c].n = 1 => Report(c) = Ready(oph[c].arg)

C5_Witness ==
    \E c, d \in Calls :
        /\ Lazy(c) /\ retval[c].kind = "future" /\ oph[c].n = 0
        /\ Report(c) = Pending
        /\ Lazy(d) /\ retval[d].kind = "future" /\ oph[d].n = 1
        /\ Report(d) = Ready(MaxVal)

\* C6: a step of one call leaves everything of every other call unchanged:
\* no step changes what belongs to more than one call.
CallState(c) ==
    <<pc[c], ver[c], ct[c], decl[c], token[c], how[c], Handler(c), Carrier(c),
      oph[c], retval[c], Report(c)>>

C6_Independent ==
    [][Cardinality({c \in Calls : CallState(c)' # CallState(c)}) <= 1]_vars

C6_Witness ==
    \E c, d \in Calls :
        /\ c # d /\ ct[c] = ct[d] /\ ver[c] = ver[d] /\ Lazy(c)
        /\ oph[c].n = 1 /\ oph[d].n = 1 /\ oph[c].arg # oph[d].arg
        /\ Report(c) = Ready(oph[c].arg) /\ Report(d) = Ready(oph[d].arg)

Observations(k) == IF k \in Calls THEN cells[k].sets ELSE 0

C8_LinkSurvives ==
    \A c \in Calls : (pc[c] = "destroyed" /\ oph[c].late) =>
        /\ Handler(c) = GoneHandler
        /\ Carrier(c) = GoneCarrier
        /\ Lazy(c) => Report(c) = Ready(oph[c].arg)
        /\ ~ Lazy(c) => Report(c) = Unit

C8_Witness ==
    \E c \in Calls :
        /\ pc[c] = "destroyed" /\ oph[c].late /\ Lazy(c)
        /\ Report(c) = Ready(oph[c].arg)

\* C9: the two versions, taken through the same steps on the same token,
\* agree on the resolved types, the state of the caller's token and the
\* value returned.
Progress(c) ==
    <<pc[c], retval[c].kind # "none", oph[c].st, oph[c].n, oph[c].arg>>

Observed(c) == <<decl[c], token[c], Report(c)>>

C9_VersionsAgree ==
    \A c, d \in Calls :
        (ver[c] = 1 /\ ver[d] = 2 /\ ct[c] = ct[d] /\ Progress(c) = Progress(d))
            => Observed(c) = Observed(d)

\* C10: a token passed as an lvalue is copied, never moved from or aliased,
\* and stays as it was whatever happens to the binder's handler later.
C10_LvalueUntouched ==
    \A c \in Calls : (ct[c].ref /\ Built(c)) =>
        /\ how[c] = "copy"
        /\ token[c] = "valid"
        /\ pc[c] = "built" => Handler(c).kind = "own"

C10_Witness ==
    \E c, d \in Calls :
        /\ ver[c] = 1 /\ ver[d] = 2
        /\ ct[c].ref /\ ct[d].ref /\ ct[c].base = "Fn" /\ ct[d].base = "Fn"
        /\ oph[c].n = 1 /\ oph[d].n = 1
        /\ token[c] = "valid" /\ token[d] = "valid"

====
